---- MODULE Spec2Model ----
(***************************************************************************)
(* Model of image_ratio_converter.py: resize_to_16_9 (one image to 16:9    *)
(* by crop, fit or stretch) and batch_process (every image of a directory).*)
(*                                                                         *)
(* The geometry is computed by the source in Python floats (IEEE-754       *)
(* binary64): target_ratio = 16 / 9, current_ratio = w / h,                *)
(* int(h * target_ratio), int(w / target_ratio).  The first part of the    *)
(* module is that arithmetic, correctly rounded (round-half-to-even) on    *)
(* 53-bit significands held as multi-limb naturals.                        *)
(***************************************************************************)
EXTENDS Integers, Sequences, FiniteSets, TLC

(***************************************************************************)
(* Bounds of the model.                                                    *)
(***************************************************************************)
\* largest decoded width and height explored for a single conversion
MaxW == 64
MaxH == 36
\* largest number of entries in the batch input directory
MaxFiles == 3

(***************************************************************************)
(* Multi-limb naturals: NLimbs limbs, little-endian, base 2^15.            *)
(***************************************************************************)
LimbBase == 2^15
NLimbs == 5

\* a natural below 2^31 as limbs
BigOfInt(n) ==
    << n % LimbBase, (n \div LimbBase) % LimbBase,
       n \div (LimbBase * LimbBase), 0, 0 >>

BigZero == BigOfInt(0)

\* a * k + c for a small k (k, c < LimbBase), limb by limb from limb i
RECURSIVE BigMulFrom(_, _, _, _)
BigMulFrom(a, k, i, c) ==
    IF i > NLimbs THEN << >>
    ELSE LET v == a[i] * k + c
         IN  << v % LimbBase >> \o BigMulFrom(a, k, i + 1, v \div LimbBase)

BigMulSmall(a, k) == BigMulFrom(a, k, 1, 0)

BigDouble(a) == BigMulFrom(a, 2, 1, 0)

BigDoublePlus(a, bit) == BigMulFrom(a, 2, 1, bit)

BigAddSmall(a, c) == BigMulFrom(a, 1, 1, c)

\* a >= b, deciding from limb i downwards
RECURSIVE BigGeqFrom(_, _, _)
BigGeqFrom(a, b, i) ==
    IF i = 0 THEN TRUE
    ELSE IF a[i] > b[i] THEN TRUE
    ELSE IF a[i] < b[i] THEN FALSE
    ELSE BigGeqFrom(a, b, i - 1)

BigGeq(a, b) == BigGeqFrom(a, b, NLimbs)

BigGt(a, b) == ~BigGeq(b, a)

\* a - b (a >= b), limb by limb with borrow
RECURSIVE BigSubFrom(_, _, _, _)
BigSubFrom(a, b, i, borrow) ==
    IF i > NLimbs THEN << >>
    ELSE LET v == a[i] - b[i] - borrow
         IN  IF v < 0 THEN << v + LimbBase >> \o BigSubFrom(a, b, i + 1, 1)
                      ELSE << v >> \o BigSubFrom(a, b, i + 1, 0)

BigSub(a, b) == BigSubFrom(a, b, 1, 0)

\* a * 2^n (no overflow of the top limb): whole limbs first, then bits
BigShl(a, n) ==
    LET k  == n \div 15
        lo == 2^(n % 15)
        hi == 2^(15 - (n % 15))
        at(i) == IF i >= 1 THEN a[i] ELSE 0
    IN  [i \in 1..NLimbs |->
            ((at(i - k) * lo) % LimbBase) + (at(i - k - 1) \div hi)]

\* floor(a / 2^n): whole limbs first, then the bits within a limb
BigShr(a, n) ==
    LET k  == n \div 15
        lo == 2^(n % 15)
        hi == 2^(15 - (n % 15))
        at(i) == IF i <= NLimbs THEN a[i] ELSE 0
    IN  [i \in 1..NLimbs |-> (at(i + k) \div lo) + (at(i + k + 1) % lo) * hi]

\* the value of a bignum known to be below 2^30
BigToInt(a) == a[1] + LimbBase * a[2]

(***************************************************************************)
(* binary64 values: mant * 2^(exp - 52) with 2^52 <= mant < 2^53.          *)
(***************************************************************************)
MantBits == 52

Pow52 == BigShl(BigOfInt(1), MantBits)
Pow53 == BigShl(BigOfInt(1), MantBits + 1)

\* scale q (or p) by powers of two until q <= p < 2q
RECURSIVE NormUp(_, _, _)
NormUp(p, q, e) ==
    IF BigGeq(p, BigDouble(q)) THEN NormUp(p, BigDouble(q), e + 1)
    ELSE [p |-> p, q |-> q, e |-> e]

RECURSIVE NormDown(_, _, _)
NormDown(p, q, e) ==
    IF BigGeq(p, q) THEN [p |-> p, q |-> q, e |-> e]
    ELSE NormDown(BigDouble(p), q, e - 1)

\* one more quotient bit of st.r / q appended to st.mant
QuotStep(st, q) ==
    LET r2 == BigDouble(st.r)
    IN  IF BigGeq(r2, q)
        THEN [r |-> BigSub(r2, q), mant |-> BigDoublePlus(st.mant, 1)]
        ELSE [r |-> r2, mant |-> BigDouble(st.mant)]

\* n more quotient bits (all zero once the remainder is zero)
RECURSIVE QuotBits(_, _, _)
QuotBits(st, q, n) ==
    IF n = 0 THEN st
    ELSE IF st.r = BigZero THEN [r |-> BigZero, mant |-> BigShl(st.mant, n)]
    ELSE QuotBits(QuotStep(st, q), q, n - 1)

\* q <= p < 2q after scaling by 2^e
Normalise(p, q) ==
    IF BigGeq(p, q) THEN NormUp(p, q, 0) ELSE NormDown(p, q, 0)

\* the 53 leading bits of nrm.p / nrm.q, and the remainder they leave
Significand(nrm) ==
    QuotBits([r |-> BigSub(nrm.p, nrm.q), mant |-> BigOfInt(1)], nrm.q, MantBits)

\* round half to even: up when the remainder is above half, or is half with
\* an odd significand
RoundsUp(r2, q, mant) ==
    BigGt(r2, q) \/ (r2 = q /\ mant[1] % 2 = 1)

\* the value with significand m1, which rounding up may have carried to 2^53
Renormalise(e, m1) ==
    IF m1 = Pow53 THEN [exp |-> e + 1, mant |-> Pow52]
    ELSE [exp |-> e, mant |-> m1]

Rounded(nrm, d) ==
    Renormalise(nrm.e, IF RoundsUp(BigDouble(d.r), nrm.q, d.mant)
                       THEN BigAddSmall(d.mant, 1) ELSE d.mant)

RoundFrom(nrm) == Rounded(nrm, Significand(nrm))

\* p / q (p, q > 0) rounded to the nearest binary64, ties to even
RoundQuot(p, q) == RoundFrom(Normalise(p, q))

FZero == [exp |-> 0, mant |-> BigZero]

\* Python's int / int (true division), b > 0
IntTrueDiv(a, b) ==
    IF a = 0 THEN FZero ELSE RoundQuot(BigOfInt(a), BigOfInt(b))

\* Python's int * float and int / float for a float f with 0 <= f.exp <= 52
IntMulFloat(n, f) ==
    IF n = 0 THEN FZero
    ELSE RoundQuot(BigMulSmall(f.mant, n), BigShl(BigOfInt(1), MantBits - f.exp))

IntDivFloat(n, f) ==
    IF n = 0 THEN FZero
    ELSE RoundQuot(BigShl(BigOfInt(n), MantBits - f.exp), f.mant)

\* Python's float > float (non-negative operands)
FloatGt(f, g) ==
    IF f.mant = BigZero THEN FALSE
    ELSE IF g.mant = BigZero THEN TRUE
    ELSE IF f.exp # g.exp THEN f.exp > g.exp
    ELSE BigGt(f.mant, g.mant)

\* Python's int(float): truncation (values below 2^30)
FloatToInt(f) ==
    IF f.mant = BigZero \/ f.exp < 0 THEN 0
    ELSE BigToInt(BigShr(f.mant, MantBits - f.exp))

\* faulty variant: the ratio written as the decimal 1.778
target_ratio_decimal == IntTrueDiv(1778, 1000)

\* target_ratio = 16 / 9
target_ratio == IntTrueDiv(16, 9)

(***************************************************************************)
(* Strings are sequences of one-character strings, so that str.lower(),    *)
(* str.endswith() and Path.suffix / Path.stem are computed, not assumed.   *)
(***************************************************************************)
LowerChar(c) ==
    CASE c = "J" -> "j" [] c = "P" -> "p" [] c = "G" -> "g"
      [] c = "N" -> "n" [] c = "E" -> "e" [] c = "B" -> "b"
      [] c = "M" -> "m" [] c = "T" -> "t" [] c = "I" -> "i"
      [] c = "F" -> "f" [] c = "W" -> "w" [] c = "A" -> "a"
      [] OTHER -> c

Lower(s) == [i \in 1..Len(s) |-> LowerChar(s[i])]

EndsWith(s, t) ==
    /\ Len(t) <= Len(s)
    /\ SubSeq(s, Len(s) - Len(t) + 1, Len(s)) = t

\* str.rfind("."), 0-based as in Python; -1 when there is no dot
RFindDot(s) ==
    LET dots == {i \in 1..Len(s) : s[i] = "."}
    IN  IF dots = {} THEN -1
        ELSE (CHOOSE i \in dots : \A j \in dots : j <= i) - 1

\* pathlib's PurePath.suffix and PurePath.stem of a file name
Suffix(name) ==
    LET i == RFindDot(name)
    IN  IF 0 < i /\ i < Len(name) - 1 THEN SubSeq(name, i + 1, Len(name))
        ELSE << >>

Stem(name) ==
    LET i == RFindDot(name)
    IN  IF 0 < i /\ i < Len(name) - 1 THEN SubSeq(name, 1, i) ELSE name

\* str(dir / name)
JoinPath(dir, name) == dir \o << "/" >> \o name

\* the supported extensions of batch_process
extensions ==
    { << ".", "j", "p", "g" >>, << ".", "j", "p", "e", "g" >>,
      << ".", "p", "n", "g" >>, << ".", "b", "m", "p" >>,
      << ".", "t", "i", "f", "f" >>, << ".", "w", "e", "b", "p" >> }

\* faulty variant: the suffix compared without lower()
IsImageNameCaseSensitive(name) == Suffix(name) \in extensions

\* f.suffix.lower() in extensions
IsImageName(name) == Lower(Suffix(name)) \in extensions

\* the format branch of the save step
SaveFormat(path) ==
    IF EndsWith(Lower(path), << ".", "p", "n", "g" >>) THEN "PNG"
    ELSE IF \/ EndsWith(Lower(path), << ".", "j", "p", "g" >>)
            \/ EndsWith(Lower(path), << ".", "j", "p", "e", "g" >>) THEN "JPEG"
    ELSE "auto"

(***************************************************************************)
(* The geometry of resize_to_16_9.                                         *)
(***************************************************************************)
\* The three float computations, tabulated once over the sizes explored.
TrueDivTable == [a \in 0..MaxW, b \in 1..MaxH |-> IntTrueDiv(a, b)]
MulRatioTable == [n \in 0..MaxH |-> FloatToInt(IntMulFloat(n, target_ratio))]
DivRatioTable == [n \in 0..MaxW |-> FloatToInt(IntDivFloat(n, target_ratio))]

\* original_width / original_height
CurrentRatio(ow, oh) == TrueDivTable[ow, oh]

\* faulty variant: the width from the ratio truncated to 1.777
NewWidthTruncated(oh) == (oh * 1777) \div 1000

\* int(original_height * target_ratio)
NewWidth(oh) == MulRatioTable[oh]

\* faulty variant: round() in place of int()
NewHeightRounded(ow) == (9 * ow + 8) \div 16

\* int(original_width / target_ratio)
NewHeight(ow) == DivRatioTable[ow]

\* faulty variant: the comparison the other way round
IsWiderFlipped(ratio) == FloatGt(target_ratio, ratio)

\* current_ratio > target_ratio
IsWider(ratio) == FloatGt(ratio, target_ratio)

Size(wd, ht) == [width |-> wd, height |-> ht]

NoImg == Size(-1, -1)

\* the box cropped from an image wider than 16:9, and from any other
CropWidthBox(ow, oh, new_width, left) == << left, 0, left + new_width, oh >>

CropHeightBox(ow, oh, new_height, top) == << 0, top, ow, top + new_height >>

CropWidth(ow, oh, new_width) ==
    CropWidthBox(ow, oh, new_width, (ow - new_width) \div 2)

CropHeight(ow, oh, new_height) ==
    CropHeightBox(ow, oh, new_height, (oh - new_height) \div 2)

\* the operation the crop method issues
CropOps(ow, oh, ratio) ==
    << [op |-> "crop",
        args |-> IF IsWider(ratio) THEN CropWidth(ow, oh, NewWidth(oh))
                 ELSE CropHeight(ow, oh, NewHeight(ow))] >>

\* Image.crop(box).size
CropSize(box) == Size(box[3] - box[1], box[4] - box[2])

\* a black canvas, then the original pasted in its middle
PadHeight(ow, oh, new_height) ==
    << [op |-> "new", args |-> << ow, new_height >>],
       [op |-> "paste", args |-> << 0, (new_height - oh) \div 2 >>] >>

PadWidth(ow, oh, new_width) ==
    << [op |-> "new", args |-> << new_width, oh >>],
       [op |-> "paste", args |-> << (new_width - ow) \div 2, 0 >>] >>

\* the operations the fit method issues
FitOps(ow, oh, ratio) ==
    IF IsWider(ratio) THEN PadHeight(ow, oh, NewHeight(ow))
    ELSE PadWidth(ow, oh, NewWidth(oh))

\* the operation the stretch method issues
StretchOps(ow) ==
    << [op |-> "resize", args |-> << ow, NewHeight(ow) >>] >>

\* the size of the canvas or of the resize target of an operation
TargetSize(o) == Size(o.args[1], o.args[2])

(***************************************************************************)
(* State.                                                                  *)
(***************************************************************************)
VARIABLES
    pc,             \* position of the caller: main (single file) or batch_process
    fs,             \* the file system: path |-> what decoding the file gives
    input_dir,      \* batch_process: input_dir
    output_dir,     \* batch_process: output_dir
    images,         \* batch_process: the list built from input_path.iterdir()
    found,          \* batch_process: the count printed by "Found ... images"
    idx,            \* batch_process: position of the for loop in images
    calls,          \* every invocation of resize_to_16_9: input and output path
    log,            \* batch_process: per-file outcome lines printed so far
    fatal,          \* the exception that left main / batch_process, or "none"
    rpc,            \* position inside resize_to_16_9
    input_path,     \* resize_to_16_9: input_path
    output_path,    \* resize_to_16_9: output_path
    method,         \* resize_to_16_9: method
    img,            \* resize_to_16_9: img.size
    original,       \* resize_to_16_9: original_width, original_height
    current_ratio,  \* resize_to_16_9: current_ratio
    ops,            \* image operations issued by the current invocation
    final,          \* resize_to_16_9: the "Final size" printed
    exc             \* the exception raised by the current invocation, or "none"

batchVars == << input_dir, output_dir, images, found, idx, log >>
frameVars == << input_path, output_path, img, original, current_ratio, ops,
                final, exc >>
vars == << pc, fs, batchVars, calls, fatal, rpc, method, frameVars >>

Methods == {"crop", "fit", "stretch"}

InDir == << "i", "n" >>
OutDir == << "o", "u", "t" >>

\* what Image.open / img.size give for a file
Decoded(wd, ht) == [ok |-> TRUE, size |-> Size(wd, ht)]
Corrupt == [ok |-> FALSE, size |-> NoImg]

\* the directory entries the batch model draws its input directory from
Universe ==
    { [name |-> << "a", ".", "J", "P", "G" >>, data |-> Decoded(32, 9)],
      [name |-> << "b", ".", "p", "n", "g" >>, data |-> Decoded(1, 3)],
      [name |-> << "c", ".", "t", "x", "t" >>, data |-> Corrupt],
      [name |-> << ".", "p", "n", "g" >>, data |-> Decoded(16, 9)],
      [name |-> << "d", ".", "w", "e", "b", "p" >>, data |-> Corrupt] }

\* the names input_path.iterdir() yields for directory dir
ListDir(dir) ==
    LET prefix == dir \o << "/" >>
    IN  { SubSeq(p, Len(prefix) + 1, Len(p)) :
            p \in { q \in DOMAIN fs : /\ Len(q) > Len(prefix)
                                      /\ SubSeq(q, 1, Len(prefix)) = prefix } }

\* the orders in which a set of names can be listed
Orders(S) ==
    { o \in [1..Cardinality(S) -> S] :
        \A i, j \in 1..Cardinality(S) : o[i] = o[j] => i = j }

\* the frame of a fresh invocation resize_to_16_9(inp, out, ...)
EnterResize(inp, out) ==
    /\ rpc' = "open"
    /\ input_path' = inp
    /\ output_path' = out
    /\ img' = NoImg
    /\ original' = NoImg
    /\ current_ratio' = FZero
    /\ ops' = << >>
    /\ final' = NoImg
    /\ exc' = "none"
    /\ calls' = Append(calls, [inp |-> inp, out |-> out])

\* raise e inside resize_to_16_9
Raise(e) == rpc' = "raised" /\ exc' = e

(***************************************************************************)
(* main, single-file branch: the output name, then one resize_to_16_9.     *)
(***************************************************************************)
\* output = args.output, or f"{path.stem}_16_9{path.suffix}" without one
SingleOutput(inp, given) ==
    IF given = << >>
    THEN Stem(inp) \o << "_", "1", "6", "_", "9" >> \o Suffix(inp)
    ELSE given

SingleInput == << "a", ".", "J", "P", "G" >>

InitSingle ==
    /\ pc = "main"
    /\ \E data \in {Corrupt} \cup {Decoded(wd, ht) : wd \in 0..MaxW, ht \in 0..MaxH} :
          fs = [p \in {SingleInput} |-> data]
    /\ method \in Methods
    /\ input_dir = << >> /\ output_dir = << >>
    /\ images = << >> /\ found = 0 /\ idx = 0 /\ log = << >>
    /\ fatal = "none"
    /\ rpc = "open"
    /\ input_path = SingleInput
    /\ output_path = SingleOutput(SingleInput, << >>)
    /\ img = NoImg /\ original = NoImg /\ current_ratio = FZero
    /\ ops = << >> /\ final = NoImg /\ exc = "none"
    /\ calls = << [inp |-> SingleInput, out |-> SingleOutput(SingleInput, << >>)] >>

MainReturn ==
    /\ pc = "main" /\ rpc = "returned"
    /\ pc' = "done" /\ rpc' = "idle"
    /\ UNCHANGED << fs, batchVars, calls, fatal, method, frameVars >>

MainRaise ==
    /\ pc = "main" /\ rpc = "raised"
    /\ pc' = "raised" /\ rpc' = "idle" /\ fatal' = exc
    /\ UNCHANGED << fs, batchVars, calls, method, frameVars >>

(***************************************************************************)
(* resize_to_16_9.                                                         *)
(***************************************************************************)
\* img = Image.open(input_path); original_width, original_height = img.size
Open ==
    /\ rpc = "open"
    /\ IF input_path \in DOMAIN fs /\ fs[input_path].ok
       THEN /\ img' = fs[input_path].size
            /\ original' = fs[input_path].size
            /\ rpc' = "ratio"
            /\ exc' = exc
       ELSE /\ Raise("UnidentifiedImageError")
            /\ UNCHANGED << img, original >>
    /\ UNCHANGED << pc, fs, batchVars, calls, fatal, method, input_path,
                    output_path, current_ratio, ops, final >>

\* current_ratio = original_width / original_height
Ratio ==
    /\ rpc = "ratio"
    /\ IF original.height = 0
       THEN Raise("ZeroDivisionError") /\ current_ratio' = current_ratio
       ELSE /\ current_ratio' = CurrentRatio(original.width, original.height)
            /\ rpc' = "transform"
            /\ exc' = exc
    /\ UNCHANGED << pc, fs, batchVars, calls, fatal, method, input_path,
                    output_path, img, original, ops, final >>

\* img.crop(box) accepts an empty box and returns an image of that size
TransformCrop ==
    /\ rpc = "transform" /\ method = "crop"
    /\ ops' = CropOps(original.width, original.height, current_ratio)
    /\ img' = CropSize(ops'[1].args)
    /\ rpc' = "report"
    /\ UNCHANGED << pc, fs, batchVars, calls, fatal, method, input_path,
                    output_path, original, current_ratio, final, exc >>

TransformFit ==
    /\ rpc = "transform" /\ method = "fit"
    /\ ops' = FitOps(original.width, original.height, current_ratio)
    /\ img' = TargetSize(ops'[1])
    /\ rpc' = "report"
    /\ UNCHANGED << pc, fs, batchVars, calls, fatal, method, input_path,
                    output_path, original, current_ratio, final, exc >>

\* img.resize((new_width, new_height), Image.LANCZOS); Image.resize refuses
\* a target with a dimension below 1
TransformStretch ==
    /\ rpc = "transform" /\ method = "stretch"
    /\ ops' = StretchOps(original.width)
    /\ IF ops'[1].args[1] < 1 \/ ops'[1].args[2] < 1
       THEN Raise("ValueError") /\ img' = img
       ELSE /\ img' = TargetSize(ops'[1])
            /\ rpc' = "report"
            /\ exc' = exc
    /\ UNCHANGED << pc, fs, batchVars, calls, fatal, method, input_path,
                    output_path, original, current_ratio, final >>

\* final_width, final_height = img.size; the two prints, the second of which
\* divides final_width by final_height
Report ==
    /\ rpc = "report"
    /\ final' = img
    /\ IF img.height = 0
       THEN Raise("ZeroDivisionError")
       ELSE rpc' = "save" /\ exc' = exc
    /\ UNCHANGED << pc, fs, batchVars, calls, fatal, method, input_path,
                    output_path, img, original, current_ratio, ops >>

\* img.save(output_path, ...): the encoder or the file system may refuse
Save ==
    /\ rpc = "save"
    /\ ops' = Append(ops, [op |-> "save", args |-> << SaveFormat(output_path) >>])
    /\ \E written \in BOOLEAN :
          IF written
          THEN /\ fs' = [p \in DOMAIN fs \cup {output_path} |->
                            IF p = output_path
                            THEN Decoded(img.width, img.height) ELSE fs[p]]
               /\ rpc' = "returned"
               /\ exc' = exc
          ELSE /\ Raise("OSError")
               /\ fs' = fs
    /\ UNCHANGED << pc, batchVars, calls, fatal, method, input_path,
                    output_path, img, original, current_ratio, final >>

(***************************************************************************)
(* batch_process.                                                          *)
(***************************************************************************)
Init ==
    /\ pc = "mkdir"
    /\ \E D \in SUBSET Universe :
          /\ Cardinality(D) <= MaxFiles
          /\ fs = [p \in {JoinPath(InDir, f.name) : f \in D} |->
                      (CHOOSE f \in D : JoinPath(InDir, f.name) = p).data]
    /\ method \in Methods
    /\ input_dir = InDir
    /\ output_dir \in {InDir, OutDir}
    /\ images = << >> /\ found = 0 /\ idx = 0 /\ log = << >>
    /\ calls = << >>
    /\ fatal = "none"
    /\ rpc = "idle"
    /\ input_path = << >> /\ output_path = << >>
    /\ img = NoImg /\ original = NoImg /\ current_ratio = FZero
    /\ ops = << >> /\ final = NoImg /\ exc = "none"

\* faulty variant: a failed mkdir is noted and the batch goes on
MkdirFailureIgnored ==
    /\ pc = "mkdir"
    /\ \E created \in (IF output_dir = input_dir THEN {TRUE} ELSE BOOLEAN) :
          IF created
          THEN pc' = "list" /\ fatal' = fatal
          ELSE pc' = "list" /\ fatal' = "OSError"
    /\ UNCHANGED << fs, batchVars, calls, rpc, method, frameVars >>

\* output_path.mkdir(parents=True, exist_ok=True): nothing to create when the
\* directory exists; otherwise the file system may refuse, and the exception
\* leaves batch_process
Mkdir ==
    /\ pc = "mkdir"
    /\ \E created \in (IF output_dir = input_dir THEN {TRUE} ELSE BOOLEAN) :
          IF created
          THEN pc' = "list" /\ fatal' = fatal
          ELSE pc' = "raised" /\ fatal' = "OSError"
    /\ UNCHANGED << fs, batchVars, calls, rpc, method, frameVars >>

\* the entries of the input directory that batch_process keeps
ImageNames == {name \in ListDir(input_dir) : IsImageName(name)}

\* faulty variant: the count of all directory entries, not of the filtered list
ReportedCountAllEntries(imgs) == Cardinality(ListDir(input_dir))

\* len(images) in "Found {len(images)} images to process"
ReportedCount(imgs) == Len(imgs)

\* images = [f for f in input_path.iterdir() if ...], in the order the
\* directory yields them; print(f"Found {len(images)} images to process")
ListImages ==
    /\ pc = "list"
    /\ images' \in Orders(ImageNames)
    /\ found' = ReportedCount(images')
    /\ idx' = 1
    /\ pc' = "loop"
    /\ UNCHANGED << fs, input_dir, output_dir, log, calls, fatal, rpc, method,
                    frameVars >>

\* output_file = output_path / img_file.name
OutputFile(name) == JoinPath(output_dir, name)

\* for img_file in images: the next iteration calls resize_to_16_9, and the
\* function returns after the last one
LoopNext ==
    /\ pc = "loop"
    /\ IF idx <= Len(images)
       THEN /\ EnterResize(JoinPath(input_dir, images[idx]), OutputFile(images[idx]))
            /\ pc' = "call"
       ELSE /\ pc' = "done"
            /\ UNCHANGED << calls, rpc, frameVars >>
    /\ UNCHANGED << fs, batchVars, fatal, method >>

\* resize_to_16_9 returned: print() and the next file
BatchReturn ==
    /\ pc = "call" /\ rpc = "returned"
    /\ log' = Append(log, [file |-> images[idx], result |-> "ok", cause |-> "none"])
    /\ idx' = idx + 1
    /\ pc' = "loop" /\ rpc' = "idle"
    /\ UNCHANGED << fs, input_dir, output_dir, images, found, calls, fatal,
                    method, frameVars >>

\* faulty variant: the exception leaves batch_process
BatchExceptPropagates ==
    /\ pc = "call" /\ rpc = "raised"
    /\ pc' = "raised" /\ rpc' = "idle"
    /\ fatal' = exc
    /\ UNCHANGED << fs, batchVars, calls, method, frameVars >>

\* except Exception as e: print the error line and go on with the next file
BatchExcept ==
    /\ pc = "call" /\ rpc = "raised"
    /\ log' = Append(log, [file |-> images[idx], result |-> "error", cause |-> exc])
    /\ idx' = idx + 1
    /\ pc' = "loop" /\ rpc' = "idle"
    /\ fatal' = fatal
    /\ UNCHANGED << fs, input_dir, output_dir, images, found, calls, method,
                    frameVars >>

ResizeStep ==
    \/ Open \/ Ratio \/ TransformCrop \/ TransformFit \/ TransformStretch
    \/ Report \/ Save

NextSingle == ResizeStep \/ MainReturn \/ MainRaise

SpecSingle == InitSingle /\ [][NextSingle]_vars

Next ==
    \/ Mkdir \/ ListImages \/ LoopNext \/ BatchReturn \/ BatchExcept
    \/ ResizeStep

Spec == Init /\ [][Next]_vars
(***************************************************************************)
(* Properties.  The transform properties (C1-C5, C9) are checked under     *)
(* SpecSingle, which runs one conversion for every size up to MaxW x MaxH; *)
(* the batch properties (C6-C8, C10) under Spec.                           *)
(***************************************************************************)
Abs(n) == IF n < 0 THEN -n ELSE n

\* the input geometry has been read and is positive
PositiveInput == original.width >= 1 /\ original.height >= 1

\* the transform of the current invocation has issued its operations
Transformed == ops # << >>

\* the geometry the transform asked for: the crop box's, the canvas's, or
\* the resize target's
OutW == IF ops[1].op = "crop" THEN ops[1].args[3] - ops[1].args[1]
        ELSE ops[1].args[1]
OutH == IF ops[1].op = "crop" THEN ops[1].args[4] - ops[1].args[2]
        ELSE ops[1].args[2]

\* the input is wider than 16:9, as a comparison of integers
WiderThanTarget == 9 * original.width > 16 * original.height

\* the method keeps the input's height (and computes the width), or the
\* input's width (and computes the height)
HeightHeld == \/ method = "crop" /\ WiderThanTarget
              \/ method = "fit" /\ ~WiderThanTarget
WidthHeld == \/ method = "crop" /\ ~WiderThanTarget
             \/ method = "fit" /\ WiderThanTarget

\* C1 as stated: for a positive input geometry the output ratio W/H is within
\* 1/H of 16/9 when the height is held (|9W - 16H| <= 9), within 1/W of 16/9
\* when the width is held (|9W - 16H| * W <= 9H), and stretch gives
\* H = floor(9W/16).  Stated for outputs with H >= 1, where the ratio exists.
C1_RatioWithinOneOverFixedDim ==
    (PositiveInput /\ Transformed /\ OutH >= 1) =>
        /\ HeightHeld => Abs(9 * OutW - 16 * OutH) <= 9
        /\ WidthHeld => Abs(9 * OutW - 16 * OutH) * OutW <= 9 * OutH
        /\ method = "stretch" =>
              16 * OutH <= 9 * OutW /\ 9 * OutW < 16 * (OutH + 1)

\* C1 amended: for a positive input geometry, when the height is held the
\* width is floor(16H/9), so W/H is within 1/H of 16/9; when the width is
\* held, and for stretch, the height is floor(9W/16): it is the height that
\* is within one pixel of 9W/16, not the ratio that is within 1/W of 16/9.
C1_FloorOfExactDimension ==
    (PositiveInput /\ Transformed) =>
        /\ HeightHeld => /\ OutH = original.height
                         /\ 9 * OutW <= 16 * OutH
                         /\ 16 * OutH < 9 * (OutW + 1)
        /\ (WidthHeld \/ method = "stretch") =>
                         /\ OutW = original.width
                         /\ 16 * OutH <= 9 * OutW
                         /\ 9 * OutW < 16 * (OutH + 1)

\* a 3x2 image cropped to 3x1: the width is held, the height is floor(27/16),
\* and the ratio 3 is further than 1/3 from 16/9
C1_Witness ==
    /\ method = "crop" /\ original = Size(3, 2) /\ Transformed
    /\ OutW = 3 /\ OutH = 1
    /\ Abs(9 * OutW - 16 * OutH) * OutW > 9 * OutH

\* C2: for every positive input geometry and every method the transform,
\* from reading the size to reporting the final size and ratio, raises
\* nothing and leaves an image whose width and height are both positive.
C2_TransformTotal ==
    PositiveInput =>
        /\ rpc = "raised" => exc = "OSError"
        /\ rpc \in {"report", "save", "returned"} =>
              img.width > 0 /\ img.height > 0

\* C3: for a positive input geometry, fit makes a canvas at least as large
\* as the input on both axes, pastes the unscaled original at offset 0 on
\* the unpadded axis and floor(padding/2) on the padded one, wholly inside
\* the canvas, with the two sides' padding differing by at most one pixel.
C3_FitPadsAndCentres ==
    (PositiveInput /\ Transformed /\ method = "fit") =>
        LET padW == OutW - original.width
            padH == OutH - original.height
            at   == ops[2].args
        IN  /\ ops[1].op = "new" /\ ops[2].op = "paste"
            /\ \A i \in 1..Len(ops) : ops[i].op \notin {"resize", "crop"}
            /\ padW >= 0 /\ padH >= 0
            /\ padW = 0 \/ padH = 0
            /\ at[1] = padW \div 2 /\ at[2] = padH \div 2
            /\ at[1] >= 0 /\ at[1] + original.width <= OutW
            /\ at[2] >= 0 /\ at[2] + original.height <= OutH
            /\ (padW - at[1]) - at[1] \in {0, 1}
            /\ (padH - at[2]) - at[2] \in {0, 1}

\* a 9x9 image pillarboxed into 16x9: padding 7, 3 pixels left and 4 right
C3_Witness ==
    /\ method = "fit" /\ original = Size(9, 9) /\ Transformed
    /\ OutW = 16 /\ OutH = 9
    /\ ops[2].args = << 3, 0 >>

\* C4: for a positive input geometry, crop yields an image no wider and no
\* taller than the input, in the wider-than-16:9 branch and in the other.
C4_CropNeverEnlarges ==
    (PositiveInput /\ Transformed /\ method = "crop") =>
        /\ ops[1].op = "crop"
        /\ img.width <= original.width /\ img.height <= original.height
        /\ ops[1].args[1] >= 0 /\ ops[1].args[2] >= 0
        /\ ops[1].args[3] <= original.width
        /\ ops[1].args[4] <= original.height

\* a 40x9 image, wider than 16:9, cropped to 16x9 from the middle
C4_Witness ==
    /\ method = "crop" /\ original = Size(40, 9) /\ Transformed
    /\ img = Size(16, 9) /\ ops[1].args = << 12, 0, 28, 9 >>

\* C5: an input that is exactly 16:9 (16k x 9k) takes the else branch, and
\* crop and fit leave its geometry unchanged with a zero offset.
C5_IdempotentAtTarget ==
    (/\ PositiveInput /\ Transformed /\ method \in {"crop", "fit"}
     /\ 9 * original.width = 16 * original.height) =>
        /\ ~IsWider(current_ratio)
        /\ img = original
        /\ method = "crop" =>
              ops[1].args = << 0, 0, original.width, original.height >>
        /\ method = "fit" =>
              /\ ops[1].args = << original.width, original.height >>
              /\ ops[2].args = << 0, 0 >>

\* a 32x18 image cropped: the crop box is the whole image
C5_Witness ==
    /\ method = "crop" /\ original = Size(32, 18) /\ rpc = "returned"
    /\ img = Size(32, 18)

\* C9: when the decoded size has a width or height <= 0, the invocation
\* fails with InvalidGeometry before any image operation is issued.
C9_InvalidGeometryGuard ==
    (/\ original # NoImg
     /\ original.width <= 0 \/ original.height <= 0
     /\ rpc # "ratio") =>
        /\ rpc = "raised" /\ exc = "InvalidGeometry"
        /\ ops = << >>

\* the extensions C7 lists
SupportedExtensions ==
    { << ".", "j", "p", "g" >>, << ".", "j", "p", "e", "g" >>,
      << ".", "p", "n", "g" >>, << ".", "b", "m", "p" >>,
      << ".", "t", "i", "f", "f" >>, << ".", "w", "e", "b", "p" >> }

\* the name is a non-empty stem followed by an extension of the list,
\* whatever the case of its letters
HasSupportedExtension(name) ==
    \E e \in SupportedExtensions :
        /\ Len(name) > Len(e)
        /\ \A i \in 1..Len(e) :
              LowerChar(name[Len(name) - Len(e) + i]) = e[i]

CalledFor(name) ==
    \E i \in 1..Len(calls) : calls[i].inp = JoinPath(input_dir, name)

\* C6: a failing resize_to_16_9 never aborts the batch: batch_process raises
\* only before any file is started, every file that cannot be decoded gets
\* its error line, the files after it are processed, and the batch runs on
\* until every listed file has its outcome line.
C6_FailuresDoNotAbortBatch ==
    /\ (pc = "raised" \/ fatal # "none") => calls = << >>
    /\ \A i \in 1..Len(log) :
          /\ log[i].file = images[i]
          /\ ~fs[calls[i].inp].ok =>
                log[i].result = "error" /\ log[i].cause # "none"
          /\ log[i].result = "ok" =>
                calls[i].out \in DOMAIN fs /\ fs[calls[i].out].ok
    /\ pc = "done" => Len(log) = Len(images) /\ Len(calls) = Len(images)
    /\ pc \notin {"done", "raised"} => ENABLED Next

\* a batch of two files: the first failed, the second was converted
C6_Witness ==
    /\ pc = "done" /\ Len(log) = 2
    /\ log[1].result = "error" /\ log[2].result = "ok"

\* C7: resize_to_16_9 is invoked exactly once for each entry of the input
\* directory with a supported extension (case-insensitively) and for no
\* other, with the output directory joined to the unchanged name as output
\* path, one invocation finishing before the next begins.
C7_OncePerSupportedEntry ==
    /\ \A i \in 1..Len(calls) :
          \E name \in ListDir(input_dir) :
              /\ HasSupportedExtension(name)
              /\ calls[i].inp = JoinPath(input_dir, name)
              /\ calls[i].out = JoinPath(output_dir, name)
    /\ \A i, j \in 1..Len(calls) : calls[i].inp = calls[j].inp => i = j
    /\ pc = "done" =>
          \A name \in ListDir(input_dir) :
              HasSupportedExtension(name) => CalledFor(name)
    /\ rpc # "idle" => pc = "call" /\ Len(calls) = Len(log) + 1
    /\ rpc = "idle" => Len(calls) = Len(log)

\* a directory with a.JPG and c.txt: one invocation, for a.JPG
C7_Witness ==
    /\ pc = "done" /\ Len(calls) = 1
    /\ ListDir(input_dir) = { << "a", ".", "J", "P", "G" >>,
                              << "c", ".", "t", "x", "t" >> }
    /\ CalledFor(<< "a", ".", "J", "P", "G" >>)

\* C8: when creating the output directory fails, batch_process raises that
\* error at once: nothing is listed, no file is decoded, transformed or
\* written, and no per-file line is printed.
C8_MkdirFailureAborts ==
    /\ pc = "raised" => fatal = "OSError"
    /\ fatal # "none" =>
          /\ pc = "raised"
          /\ images = << >> /\ found = 0
          /\ calls = << >> /\ log = << >>
          /\ rpc = "idle" /\ ops = << >>
          /\ ListDir(output_dir) = {}

\* the batch was aborted with images waiting in the input directory
C8_Witness ==
    /\ pc = "raised" /\ fatal = "OSError"
    /\ \E name \in ListDir(input_dir) : HasSupportedExtension(name)

\* C10: the list of files is fixed before the first file is processed: the
\* i-th invocation is for the i-th listed file, no invocation's input is a
\* file an earlier invocation wrote, and when the batch is done the number
\* of invocations is the count reported at its start.
C10_ListFixedBeforeProcessing ==
    pc \in {"loop", "call", "done"} =>
        /\ found = Len(images)
        /\ Len(calls) <= found
        /\ \A i \in 1..Len(calls) :
              calls[i].inp = JoinPath(input_dir, images[i])
        /\ \A i, j \in 1..Len(calls) : i < j => calls[j].inp # calls[i].out
        /\ pc = "done" => Len(calls) = found

\* output directory = input directory: two files, the first overwritten by
\* its conversion before the second was started, two invocations in all
C10_Witness ==
    /\ output_dir = input_dir /\ pc = "done"
    /\ found = 2 /\ Len(calls) = 2
    /\ log[1].result = "ok"
    /\ calls[1].out = calls[1].inp

====
